---- MODULE Spec2Model ----
(***************************************************************************)
(* Model of ecs_composex: the volume/service binding of                    *)
(* compose/compose_volumes/services_helpers.py and the Kinesis stream      *)
(* lookup and classification of kinesis/kinesis_stack.py.                  *)
(*                                                                         *)
(* Python strings are sequences of one-character strings, so that the      *)
(* regular expression of handle_volume_str_config is computed character by *)
(* character.  An optional value (a dict key that may be missing, a regex  *)
(* group that may not take part) is a sequence of length 0 or 1.           *)
(***************************************************************************)
EXTENDS Integers, Sequences, FiniteSets, TLC

\* ------------------------------------------------------------------ bounds

\* Most mounts (volume records and tmpfs mounts) the services hold together.
MaxMounts == 2

\* ----------------------------------------------------------------- strings

None == <<>>
Some(v) == <<v>>
IsSet(o) == Len(o) = 1

\* Python truthiness of an optional string: present and not empty.
Truthy(o) == Len(o) = 1 /\ Len(o[1]) > 0

\* The characters \s of the pattern matches; [\S] is every other character.
Whitespace == {" ", "\t", "\n"}

StartsWithSlash(str) == Len(str) > 0 /\ str[1] = "/"

\* The strings of the inputs.
SrcA == <<"a">>
SrcAB == <<"a", "b">>
SrcHost == <<"/", "h">>
SrcZZ == <<"z", "z">>
SrcBlank == <<" ", "a">>
HexName1 == <<"a", "b", "c", "d", "e", "f">>
HexName2 == <<"f", "a", "c", "a", "d", "e">>
TgtData == <<"/", "d">>
TgtRoot == <<"/">>
TgtRel == <<"d">>

\* ------------------------------------------------ handle_volume_str_config

\* (?:(?P<source>[\S][^:]+):)? tried at the start of the string: the index of
\* the ':' that ends the group, 0 when the group cannot match.  [^:]+ takes
\* every character up to the first ':' from the third character on and can
\* give none back, since a ':' has to follow.
SourceEnd(config) ==
    IF Len(config) >= 3 /\ config[1] \notin Whitespace /\ config[2] # ":"
       /\ \E k \in 3..Len(config) : config[k] = ":"
    THEN CHOOSE k \in 3..Len(config) :
            config[k] = ":" /\ \A j \in 3..(k - 1) : config[j] # ":"
    ELSE 0

\* (?P<target>/[^:\n]+) tried at index p: the index of the last character
\* of the target, 0 when it cannot match.  The rest of the pattern can match
\* the empty string, so the greedy [^:\n]+ keeps all it took.
TargetEnd(config, p) ==
    IF p + 1 <= Len(config) /\ config[p] = "/" /\ config[p + 1] \notin {":", "\n"}
    THEN CHOOSE q \in (p + 1)..Len(config) :
            /\ \A j \in (p + 1)..q : config[j] \notin {":", "\n"}
            /\ (q = Len(config) \/ config[q + 1] \in {":", "\n"})
    ELSE 0

\* (?::(?P<mode>ro|rw))? tried after index q: the mode, None when the group
\* takes no part.  The pattern is not anchored at its end.
ModeAfter(config, q) ==
    IF q + 3 <= Len(config) /\ config[q + 1] = ":" /\ config[q + 2] = "r"
       /\ config[q + 3] \in {"o", "w"}
    THEN Some(<<"r", config[q + 3]>>)
    ELSE None

\* path_finder.match(config): the source group is tried first; when the rest
\* fails after it, the match backtracks to a match without the source group.
NoMatch == [matched |-> FALSE, source |-> None, target |-> None, mode |-> None, end |-> 0]

path_match(config) ==
    LET j == SourceEnd(config)
        q1 == IF j > 0 THEN TargetEnd(config, j + 1) ELSE 0
        q0 == TargetEnd(config, 1)
    IN  IF q1 > 0
        THEN [matched |-> TRUE,
              source  |-> Some(SubSeq(config, 1, j - 1)),
              target  |-> Some(SubSeq(config, j + 1, q1)),
              mode    |-> ModeAfter(config, q1),
              end     |-> q1]
        ELSE IF q0 > 0
        THEN [matched |-> TRUE,
              source  |-> None,
              target  |-> Some(SubSeq(config, 1, q0)),
              mode    |-> ModeAfter(config, q0),
              end     |-> q0]
        ELSE NoMatch

\* ------------------------------------------------------------------ inputs

Services == {"app", "web"}

\* uuid4().hex[:6]: any six hexadecimal characters.
GenNames == {HexName1, HexName2}

\* The names of the top-level volumes a compose file may declare.
DeclaredNames == <<SrcAB, SrcA, HexName1>>

SrcParts == {None, Some(SrcA), Some(SrcAB), Some(SrcHost)}
TgtParts == {TgtData}
SufParts == {<<>>, <<":", "r", "o">>, <<":", "r", "w">>, <<":", "r", "x">>}

Join(s, t, m) == (IF IsSet(s) THEN s[1] \o <<":">> ELSE <<>>) \o t \o m

StrConfigs ==
    {Join(s, t, m) : s \in SrcParts, t \in TgtParts, m \in SufParts}
    \cup {<<>>, TgtRel, SrcAB \o <<":">> \o TgtRel,
          SrcAB \o <<":">> \o TgtRoot, SrcBlank \o <<":">> \o TgtData,
          SrcZZ \o <<":">> \o TgtData,
          SrcAB \o <<":">> \o TgtData \o <<":", "r", "o", ":", "x">>}

\* One entry of a service's volumes list: a string, or a dict with the keys
\* the code reads.  type is "" when the key is missing or empty; tmpfs is
\* "unset" when the key is missing or falsy, "nondict" for a truthy value
\* that is no dict, and "dict", "dict_size", "dict_badsize" for a dict
\* without size, with a numeric size, with a size int() refuses.
Entry(kind, str, type, tmpfs, target, source, read_only) ==
    [kind |-> kind, str |-> str, type |-> type, tmpfs |-> tmpfs,
     target |-> target, source |-> source, read_only |-> read_only]

StrEntry(str) == Entry("str", str, "", "unset", None, None, None)

StrEntries == {StrEntry(s) : s \in StrConfigs}

TmpfsDicts ==
    {Entry("dict", <<>>, ty.type, ty.tmpfs, tg, None, None) :
        ty \in {[type |-> "tmpfs", tmpfs |-> "unset"],
                [type |-> "", tmpfs |-> "nondict"],
                [type |-> "", tmpfs |-> "dict_size"],
                [type |-> "", tmpfs |-> "dict_badsize"]},
        tg \in {None, Some(<<>>), Some(TgtData)}}

VolumeDicts ==
    {Entry("dict", <<>>, "", "unset", tg, sr, None) :
        tg \in {None, Some(TgtData)},
        sr \in {None, Some(<<>>), Some(SrcAB), Some(SrcHost), Some(SrcZZ)}}
    \cup {Entry("dict", <<>>, "", "unset", Some(TgtData), Some(SrcAB), Some(TRUE))}

DictEntries == TmpfsDicts \cup VolumeDicts

Entries == StrEntries \cup DictEntries

\* The entries the volumes lists given to map_volumes are made of.
MapEntries ==
    TmpfsDicts \cup
    {StrEntry(Join(Some(SrcAB), TgtData, <<>>)),
     StrEntry(Join(Some(SrcHost), TgtData, <<":", "r", "o">>)),
     StrEntry(Join(None, TgtData, <<>>)),
     StrEntry(Join(Some(SrcZZ), TgtData, <<>>)),
     StrEntry(Join(Some(SrcAB), TgtRel, <<>>)),
     Entry("dict", <<>>, "", "unset", Some(TgtData), Some(SrcAB), None),
     Entry("dict", <<>>, "", "unset", Some(TgtData), Some(SrcHost), None),
     Entry("dict", <<>>, "", "unset", Some(TgtData), None, None)}

\* The entries its two-entry lists are made of.
PairEntries ==
    {StrEntry(Join(Some(SrcAB), TgtData, <<>>)),
     StrEntry(Join(Some(SrcAB), TgtRel, <<>>)),
     Entry("dict", <<>>, "tmpfs", "unset", Some(TgtData), None, None),
     Entry("dict", <<>>, "tmpfs", "unset", None, None, None)}

\* service.definition["volumes"]: missing or empty, one entry, two entries.
Definitions ==
    {<<>>} \cup {<<e>> : e \in MapEntries} \cup {<<e, f>> : e, f \in PairEntries}

\* ------------------------------------------------------------------- state

VARIABLES
    volumes,    \* the working volume list: ComposeVolume objects, by position
    svolumes,   \* service.volumes of each service
    tmpfses,    \* service.tmpfses of each service
    last,       \* the last call: its function, arguments and exception
    compose_content, \* settings.compose_content[RES_KEY]: the declared streams
    mappings,   \* settings.mappings
    streams,    \* each Stream's mappings and whether its stack is set
    xstack,     \* the XStack under construction: its buckets and outcome
    klast,      \* the last call of get_stream_config and what it returned
    template,   \* the cluster template: parameters, conditions, resources, outputs
    warnings,   \* what LOG.warn was called with, in order
    clast       \* the last call of cluster_template: function, arguments, exception

volume_vars == <<volumes, svolumes, tmpfses, last>>
kinesis_vars == <<compose_content, mappings, streams, xstack, klast>>
cluster_vars == <<template, warnings, clast>>
vars == <<volumes, svolumes, tmpfses, last,
          compose_content, mappings, streams, xstack, klast,
          template, warnings, clast>>

\* ComposeVolume(name, {}): no service attached yet.
ComposeVolume(name, autogenerated) ==
    [name |-> name, services |-> <<>>, autogenerated |-> autogenerated]

\* The program state the helpers read and change, with the exception raised.
State(v, sv, tm, exc) == [volumes |-> v, svolumes |-> sv, tmpfses |-> tm, exc |-> exc]

Raise(st, exc) == [st EXCEPT !.exc = exc]

\* A volume config dict, as the helpers build it.  volume is 0 for None and
\* the position of the ComposeVolume in the volume list otherwise.
VolConfig(source, target, read_only, volume, type) ==
    [source |-> source, target |-> target, read_only |-> read_only,
     volume |-> volume, type |-> type]

\* keyisset(key, y) for a string value: the key is there and its value is
\* truthy.  keyisset("volume", volume) is False for every ComposeVolume,
\* which is no dict.
keyisset(o) == Truthy(o)

\* ----------------------------------------- match_volumes_services_config

AppendRecord(st, service, vol_config) ==
    [st EXCEPT !.svolumes[service] = Append(@, vol_config)]

\* Mutant: volume.services.append(service) is left out.
AttachServiceLeftOut(st, service, i) == st

AttachService(st, service, i) ==
    [st EXCEPT !.volumes[i].services = Append(@, service)]

\* The first volume of the list whose name is the source, 0 when none is.
\* A config without a truthy source skips every volume of the loop.
FirstMatch(vols, vol_config) ==
    IF keyisset(vol_config.source)
       /\ \E i \in 1..Len(vols) : vols[i].name = vol_config.source[1]
    THEN CHOOSE i \in 1..Len(vols) :
            /\ vols[i].name = vol_config.source[1]
            /\ \A j \in 1..(i - 1) : vols[j].name # vol_config.source[1]
    ELSE 0

\* Mutant: the config is appended to service.volumes before the volume is
\* looked up, so a failed lookup leaves it there.
match_volumes_record_first(st, service, vol_config) ==
    IF keyisset(vol_config.source) /\ StartsWithSlash(vol_config.source[1])
    THEN AppendRecord(st, service, [vol_config EXCEPT !.volume = 0])
    ELSE LET i == FirstMatch(st.volumes, vol_config)
         IN  IF i > 0
             THEN AppendRecord(AttachService(st, service, i), service,
                               [vol_config EXCEPT !.volume = i])
             ELSE Raise(AppendRecord(st, service, vol_config), "LookupError")

match_volumes_services_config(st, service, vol_config) ==
    IF keyisset(vol_config.source) /\ StartsWithSlash(vol_config.source[1])
    THEN AppendRecord(st, service, [vol_config EXCEPT !.volume = 0])
    ELSE LET i == FirstMatch(st.volumes, vol_config)
         IN  IF i > 0
             THEN AppendRecord(AttachService(st, service, i), service,
                               [vol_config EXCEPT !.volume = i])
             \* the message of the LookupError reads vol_config["source"]
             ELSE IF IsSet(vol_config.source)
                  THEN Raise(st, "LookupError")
                  ELSE Raise(st, "KeyError")

\* ------------------------------------------------ handle_volume_str_config

handle_volume_str_config(st, service, config, gen) ==
    LET m == path_match(config)
    IN  IF ~m.matched \/ ~Truthy(m.target)
        THEN Raise(st, "ValueError")
        ELSE LET read_only == m.mode = Some(<<"r", "o">>)
             IN  IF Truthy(m.source)
                 THEN match_volumes_services_config(st, service,
                        VolConfig(m.source, m.target, read_only, 0, ""))
                 ELSE LET st1 == [st EXCEPT !.volumes =
                                     Append(@, ComposeVolume(gen, TRUE))]
                      IN  match_volumes_services_config(st1, service,
                            VolConfig(Some(gen), m.target, read_only,
                                      Len(st1.volumes), ""))

\* ----------------------------------------------- handle_volume_dict_config

is_tmpfs(config) == config.tmpfs # "unset" \/ config.type = "tmpfs"

\* Mutant: the config goes to service.volumes without being matched.
handle_volume_dict_unmatched(st, service, config) ==
    IF ~is_tmpfs(config) /\ ~(IsSet(config.target) /\ IsSet(config.source))
    THEN Raise(st, "KeyError")
    ELSE IF ~is_tmpfs(config)
    THEN AppendRecord(st, service,
            VolConfig(config.source, config.target,
                      IF IsSet(config.read_only) THEN config.read_only[1] ELSE FALSE,
                      0, config.type))
    ELSE st

handle_volume_dict_config(st, service, config) ==
    IF ~is_tmpfs(config) /\ ~(IsSet(config.target) /\ IsSet(config.source))
    THEN Raise(st, "KeyError")
    ELSE LET volume_config ==
                VolConfig(config.source, config.target,
                          IF IsSet(config.read_only) THEN config.read_only[1] ELSE FALSE,
                          0, config.type)
         IN  IF ~is_tmpfs(config)
             THEN match_volumes_services_config(st, service, volume_config)
             ELSE st

\* ------------------------------------------------------------- map_volumes

\* Mutant: the target key only has to be there, empty or not.
map_tmpfs_key_present(st, service, s_volume) ==
    IF ~IsSet(s_volume.target)
    THEN Raise(st, "KeyError")
    ELSE IF s_volume.tmpfs = "dict_badsize"
    THEN Raise(st, "ValueError")
    ELSE [st EXCEPT !.tmpfses[service] =
            Append(@, [ContainerPath |-> s_volume.target[1],
                       Size |-> IF s_volume.tmpfs = "dict_size"
                                THEN Some(64) ELSE None])]

\* The tmpfs branch of the loop body.
map_tmpfs(st, service, s_volume) ==
    IF ~keyisset(s_volume.target)
    THEN Raise(st, "KeyError")
    ELSE IF s_volume.tmpfs = "dict_badsize"
    THEN Raise(st, "ValueError")
    ELSE [st EXCEPT !.tmpfses[service] =
            Append(@, [ContainerPath |-> s_volume.target[1],
                       Size |-> IF s_volume.tmpfs = "dict_size"
                                THEN Some(64) ELSE None])]

\* One pass of the loop body.  passed is FALSE when the caller gave no
\* volumes (None); an empty list is skipped the same way.
map_one(st, service, s_volume, passed, gen) ==
    IF (s_volume.kind = "dict" /\ s_volume.type = "tmpfs") \/ s_volume.tmpfs # "unset"
    THEN map_tmpfs(st, service, s_volume)
    ELSE IF ~passed \/ Len(st.volumes) = 0
    THEN st
    ELSE IF s_volume.kind = "str"
    THEN handle_volume_str_config(st, service, s_volume.str, gen)
    ELSE handle_volume_dict_config(st, service, s_volume)

RECURSIVE map_loop(_, _, _, _, _, _)
map_loop(st, service, definition, passed, gens, i) ==
    IF i > Len(definition) \/ st.exc # "none"
    THEN st
    ELSE map_loop(map_one(st, service, definition[i], passed, gens[i]),
                  service, definition, passed, gens, i + 1)

map_volumes(st, service, definition, passed, gens) ==
    map_loop(st, service, definition, passed, gens, 1)

\* ------------------------------------------------------------ kinesis_stack

\* The keys of kinesis_params: the compose section of the streams and the
\* key of their mappings.
RES_KEY == "x-kinesis"
MAPPINGS_KEY == "kinesis"

StreamNames == <<"orders", "events", "audit">>

\* What client.describe_stream(StreamName=resource_id) does: it answers, it
\* raises ResourceNotFoundException, or it raises another ClientError.
DescribeOutcomes == {"ok", "not_found", "client_error"}

\* The answer of describe_stream for a stream: StreamDescription with its
\* StreamARN and StreamName, and KeyId when the stream is encrypted.
StreamDescription(name, key) ==
    [StreamARN |-> <<"arn:aws:kinesis", name>>, StreamName |-> name, KeyId |-> key]

KeyIds == {None, Some("alias/aws/kinesis")}

\* attributes_to_mapping(stream_r, stream_mapping): the value at each path.
attributes_to_mapping(stream_r) ==
    [STREAM_ARN |-> stream_r.StreamARN,
     STREAM_ID |-> stream_r.StreamName,
     STREAM_KMS_KEY_ID |-> stream_r.KeyId]

Returned(value, raised) == [value |-> value, raised |-> raised]

\* Mutant: no handler for ResourceNotFoundException, which is a ClientError
\* the caller then sees.
get_stream_config_unhandled(outcome, stream_r) ==
    IF outcome = "ok"
    THEN Returned(Some(attributes_to_mapping(stream_r)), "none")
    ELSE IF outcome = "not_found"
    THEN Returned(None, "ResourceNotFoundException")
    ELSE Returned(None, "none")

\* get_stream_config: the mapping, or None when the stream is not found or
\* the error of another ClientError was logged.
get_stream_config(outcome, stream_r) ==
    IF outcome = "ok"
    THEN Returned(Some(attributes_to_mapping(stream_r)), "none")
    ELSE IF outcome = "not_found"
    THEN Returned(None, "none")
    ELSE Returned(None, "none")

\* The marker of a declared stream: Lookup, Use, or neither.
Markers == {"new", "use", "lookup"}

Declaration(name, marker) == [name |-> name, marker |-> marker]

\* The streams a compose file may declare under RES_KEY: the first n names in
\* order, each with a marker.
Declarations ==
    UNION {{[k \in 1..n |-> Declaration(StreamNames[k], m[k])] :
                m \in [1..n -> Markers]} : n \in 0..Len(StreamNames)}

\* The resources of a list that satisfy a test, in the list's order.
Filter(x_resources, Test(_)) == SelectSeq(x_resources, Test)

set_use_resources(x_resources) ==
    LET IsUse(r) == r.marker = "use" IN Filter(x_resources, IsUse)

set_lookup_resources(x_resources) ==
    LET IsLookup(r) == r.marker = "lookup" IN Filter(x_resources, IsLookup)

set_new_resources(x_resources) ==
    LET IsNew(r) == r.marker = "new" IN Filter(x_resources, IsNew)

\* settings.mappings: the keys it has, and under each the mappings by
\* logical name.
NoEntries == [n \in {} |-> None]
Table(keys) == [k \in keys |-> NoEntries]
HasKey(table, key) == key \in DOMAIN table
Put(f, k, v) == [x \in DOMAIN f \cup {k} |-> IF x = k THEN v ELSE f[x]]

\* The state resolve_lookup reads and changes, with the exception raised.
KState(m, s, exc) == [mappings |-> m, streams |-> s, exc |-> exc]

\* resource.lookup_resource(..., get_stream_config, ...): the resource keeps
\* what get_stream_config returned as its mappings.
lookup_resource(ks, resource, outcome, key) ==
    LET got == get_stream_config(outcome, StreamDescription(resource.name, key))
    IN  IF got.raised # "none"
        THEN [ks EXCEPT !.exc = got.raised]
        ELSE [ks EXCEPT !.streams[resource.name].mappings = got.value]

\* One pass of the loop of resolve_lookup.
resolve_one(ks, resource, outcome, key) ==
    LET ks1 == lookup_resource(ks, resource, outcome, key)
    IN  IF ks1.exc # "none" THEN ks1
        ELSE IF ~HasKey(ks1.mappings, RES_KEY)
        THEN [ks1 EXCEPT !.exc = "KeyError"]
        ELSE [ks1 EXCEPT !.mappings[RES_KEY] =
                Put(@, resource.name, ks1.streams[resource.name].mappings)]

RECURSIVE resolve_loop(_, _, _, _, _)
resolve_loop(ks, lookup_resources, outcomes, keys, i) ==
    IF i > Len(lookup_resources) \/ ks.exc # "none"
    THEN ks
    ELSE resolve_loop(resolve_one(ks, lookup_resources[i],
                                  outcomes[lookup_resources[i].name],
                                  keys[lookup_resources[i].name]),
                      lookup_resources, outcomes, keys, i + 1)

\* keyisset(MAPPINGS_KEY, settings.mappings): the key is there with entries.
resolve_lookup(ks, lookup_resources, outcomes, keys) ==
    LET ks0 == IF HasKey(ks.mappings, MAPPINGS_KEY)
                  /\ DOMAIN ks.mappings[MAPPINGS_KEY] # {}
               THEN ks
               ELSE [ks EXCEPT !.mappings = Put(@, MAPPINGS_KEY, NoEntries)]
    IN  resolve_loop(ks0, lookup_resources, outcomes, keys, 1)

\* Mutant: x_resources is an iterator, which the first pass over it uses up.
XStack_buckets_iterator(x_resources) ==
    [use |-> set_use_resources(x_resources),
     lookup |-> set_lookup_resources(<<>>),
     new |-> set_new_resources(<<>>)]

\* The three buckets XStack.__init__ computes from x_resources, the values
\* view of the declared streams.
XStack_buckets(x_resources) ==
    [use |-> set_use_resources(x_resources),
     lookup |-> set_lookup_resources(x_resources),
     new |-> set_new_resources(x_resources)]

\* No stream declared, nothing looked up: the state of a run that only maps
\* volumes.
NoXStack == [phase |-> "init", use |-> <<>>, lookup |-> <<>>, new |-> <<>>,
             is_void |-> FALSE, exc |-> "none"]

NoCall == [op |-> "idle", outcome |-> "ok", key |-> None, name |-> "orders",
           value |-> None, raised |-> "none"]

StreamsOf(content) ==
    [n \in {content[k].name : k \in 1..Len(content)} |->
        [mappings |-> None, stack |-> FALSE]]

NoStreams ==
    /\ compose_content = <<>>
    /\ mappings = Table({})
    /\ streams = StreamsOf(<<>>)
    /\ xstack = NoXStack
    /\ klast = NoCall

\* --------------------------------------------------------- cluster_template

\* Python values: None, a str, and a dict with its items by key.
PyNone == [type |-> "NoneType"]
Str(s) == [type |-> "str", value |-> s]
EmptyItems == [k \in {} |-> PyNone]
Dict(items) == [type |-> "dict", items |-> items]

\* Python truthiness: None, the empty str and the empty dict are false.
Bool(v) ==
    CASE v.type = "NoneType" -> FALSE
      [] v.type = "str" -> v.value # ""
      [] v.type = "dict" -> DOMAIN v.items # {}

\* KEYISSET(x, y): y is a dict, has the key x, and the value is true.
KEYISSET(x, y) == y.type = "dict" /\ x \in DOMAIN y.items /\ Bool(y.items[x])

\* The names cluster_template.py binds at module level: what it imports and
\* the two functions it defines.
ModuleNames ==
    {"Ref", "If", "GetAtt", "Stack", "Cluster", "formatted_outputs",
     "cluster_params", "cluster_conditions", "add_hosts_resources",
     "generate_spot_fleet_template", "DEFAULT_SPOT_CONFIG", "build_template",
     "KEYISSET", "LOG", "cfn_conditions", "ROOT_STACK_NAME", "ROOT_STACK_NAME_T",
     "upload_template", "vpc_params", "add_spotfleet_stack",
     "generate_cluster_template"}

Attribute(module, name) == [module |-> module, name |-> name]

\* The list generate_cluster_template builds for build_template, in order.
ClusterParameters ==
    <<Attribute("cluster_params", "CLUSTER_NAME"),
      Attribute("cluster_params", "USE_FLEET"),
      Attribute("cluster_params", "USE_ONDEMAND"),
      Attribute("cluster_params", "ECS_AMI_ID"),
      Attribute("cluster_params", "TARGET_CAPACITY"),
      Attribute("cluster_params", "MIN_CAPACITY"),
      Attribute("cluster_params", "MAX_CAPACITY"),
      Attribute("vpc_params", "APP_SUBNETS"),
      Attribute("vpc_params", "VPC_ID"),
      Attribute("ecs_params", "CLUSTER_NAME")>>

\* The conditions generate_cluster_template adds, in order.
ClusterConditions ==
    <<"MAX_IS_MIN_T", "USE_SPOT_CON_T", "GENERATED_CLUSTER_NAME_CON_T",
      "CLUSTER_NAME_CON_T">>

\* What add_defaults adds to every template.
DefaultParameters ==
    {Attribute("cfn_params", "USE_SSM_EXPORTS"),
     Attribute("cfn_params", "USE_CFN_EXPORTS"),
     Attribute("cfn_params", "ROOT_STACK_NAME")}

DefaultConditions ==
    {"USE_SSM_EXPORTS_T", "USE_CFN_EXPORTS_T", "NOT_USE_CFN_EXPORTS_T",
     "USE_CFN_AND_SSM_EXPORTS_T", "USE_STACK_NAME_CON_T", "USE_SSM_ONLY_T"}

\* A troposphere Template: what was added to it, resources by title.
Template(parameters, conditions, resources, outputs) ==
    [parameters |-> parameters, conditions |-> conditions,
     resources |-> resources, outputs |-> outputs]

\* init_template: a template with nothing added.
init_template == Template({}, {}, {}, {})

Range(s) == {s[i] : i \in 1..Len(s)}

\* build_template(description, parameters): the parameters, then the defaults.
build_template(parameters) ==
    Template(Range(parameters) \cup DefaultParameters, DefaultConditions, {}, {})

Titles(t) == {r.title : r \in t.resources}

\* The state a function of cluster_template works on, with the exception it
\* raised.
CState(t, w, exc) == [template |-> t, warnings |-> w, exc |-> exc]

\* template.add_resource(resource): a title the template has is refused.
add_resource(cs, resource) ==
    IF resource.title \in Titles(cs.template)
    THEN [cs EXCEPT !.exc = "ValueError"]
    ELSE [cs EXCEPT !.template.resources = @ \cup {resource}]

\* The nested stack of the spot fleet.
SpotFleetStack(fleet_template_url, launch_template) ==
    [title |-> "SpotFleet", type |-> "Stack", Condition |-> "USE_SPOT_CON_T",
     TemplateURL |-> fleet_template_url, LaunchTemplate |-> launch_template]

\* The two warnings add_spotfleet_stack logs.
WarnNoSpotConfig == "No spot_config set in configs of ComposeX File. Setting to defaults"
WarnNoUrl == "Fleet template URL not returned. Not adding SpotFleet to Cluster stack"

DEFAULT_SPOT_CONFIG == Dict([use_spot |-> Str("default")])
CustomSpotConfig == Dict([use_spot |-> Str("custom")])

\* What upload_template returns: no URL (None or an empty string), or the URL.
NoUrl == PyNone
UploadOutcomes == {NoUrl, Str(""), Str("https://s3/spot_fleet.json")}

\* add_spotfleet_stack. kwargs is the items of the keyword arguments; url is
\* what upload_template returns if it is called.
add_spotfleet_stack(cs, region_azs, content, launch_template, kwargs, url) ==
    LET configs == IF KEYISSET("configs", content)
                   THEN content.items["configs"] ELSE PyNone
        spot_config == IF KEYISSET("spot_config", configs)
                       THEN configs.items["spot_config"] ELSE PyNone
        kw == IF Bool(spot_config)
              THEN Put(kwargs, "spot_config", spot_config)
              ELSE Put(kwargs, "spot_config", DEFAULT_SPOT_CONFIG)
        cs1 == IF Bool(spot_config) THEN cs
               ELSE [cs EXCEPT !.warnings = Append(@, WarnNoSpotConfig)]
    IN  IF "BucketName" \notin DOMAIN kw
        THEN [cs1 EXCEPT !.exc = "KeyError"]
        ELSE IF ~Bool(url)
        THEN [cs1 EXCEPT !.warnings = Append(@, WarnNoUrl)]
        ELSE add_resource(cs1, SpotFleetStack(url.value, launch_template))

\* add_hosts_resources(template, cluster): adds the launch template of the
\* hosts and returns it.
add_hosts_resources(cs) ==
    add_resource(cs, [title |-> "LaunchTemplate", type |-> "LaunchTemplate"])

\* The output generate_cluster_template adds.
ClusterOutput == "CLUSTER_NAME_T"

\* The template as generate_cluster_template has it when it calls
\* add_spotfleet_stack: parameters, conditions, the cluster and the hosts.
ParentTemplate(parameters) ==
    LET t0 == build_template(parameters)
        t1 == [t0 EXCEPT !.conditions = @ \cup Range(ClusterConditions)]
        t2 == add_resource(CState(t1, <<>>, "none"),
                           [title |-> "EcsCluster", type |-> "Cluster"])
    IN  add_hosts_resources(t2).template

\* generate_cluster_template: evaluating the list of parameters reads every
\* module named in it; a name the module does not bind raises NameError
\* before a template exists.
generate_cluster_template(cs, region_azs, content, kwargs, url) ==
    IF \E i \in 1..Len(ClusterParameters) :
            ClusterParameters[i].module \notin ModuleNames
    THEN [cs EXCEPT !.exc = "NameError"]
    ELSE LET cs1 == [cs EXCEPT !.template = ParentTemplate(ClusterParameters)]
             cs2 == add_spotfleet_stack(cs1, region_azs, content,
                                        "LaunchTemplate", kwargs, url)
         IN  IF cs2.exc # "none" THEN [cs2 EXCEPT !.template = cs.template]
             ELSE [cs2 EXCEPT !.template.outputs = @ \cup {ClusterOutput}]

\* The compose contents the functions are given: None (the default), and
\* dicts without configs, with empty configs, with configs without
\* spot_config, with an empty and with a set spot_config.
ComposeContents ==
    {PyNone,
     Dict(EmptyItems),
     Dict([configs |-> PyNone]),
     Dict([configs |-> Dict([composex |-> Str("x")])]),
     Dict([configs |-> Dict([spot_config |-> Dict(EmptyItems)])]),
     Dict([configs |-> Dict([spot_config |-> CustomSpotConfig])])}

\* The keyword arguments: with and without the bucket.
KwargsChoices == {EmptyItems, [BucketName |-> Str("bucket")]}

RegionAzs == {<<"eu-west-1a">>, <<"eu-west-1a", "eu-west-1b">>}

ClusterCall(op, region_azs, content, kwargs, url, exc) ==
    [op |-> op, region_azs |-> region_azs, content |-> content,
     kwargs |-> kwargs, url |-> url, exc |-> exc]

NoClusterCall == ClusterCall("idle", <<>>, PyNone, EmptyItems, NoUrl, "none")

\* No cluster template is being generated.
NoCluster ==
    /\ template = init_template
    /\ warnings = <<>>
    /\ clast = NoClusterCall

\* ----------------------------------------------------------------- actions

\* The top-level volumes of a compose file that declares the names, in the
\* order declared, none attached to a service yet.
Declared == [k \in 1..Len(DeclaredNames) |-> ComposeVolume(DeclaredNames[k], FALSE)]

Call(op, service, definition, passed, gens, exc) ==
    [op |-> op, service |-> service, definition |-> definition,
     passed |-> passed, gens |-> gens, exc |-> exc]

\* No call to report: the caller is between two calls.
Idle == Call("idle", "app", <<>>, TRUE, <<>>, "none")

\* No service has mapped its volumes yet.
NoMounts ==
    /\ svolumes = [s \in Services |-> <<>>]
    /\ tmpfses = [s \in Services |-> <<>>]
    /\ last = Idle

Init ==
    /\ volumes \in {<<>>, Declared}
    /\ NoMounts
    /\ NoStreams
    /\ NoCluster

Current == State(volumes, svolumes, tmpfses, "none")

RECURSIVE Mounts(_, _)
Mounts(st, S) ==
    IF S = {} THEN 0
    ELSE LET s == CHOOSE x \in S : TRUE
         IN  Len(st.svolumes[s]) + Len(st.tmpfses[s]) + Mounts(st, S \ {s})

WithinBounds(st) == Mounts(st, Services) <= MaxMounts

\* The state a call leaves, and the record of the call.
Commit(st, op, service, definition, passed, gens) ==
    /\ last = Idle
    /\ WithinBounds(st)
    /\ volumes' = st.volumes
    /\ svolumes' = st.svolumes
    /\ tmpfses' = st.tmpfses
    /\ last' = Call(op, service, definition, passed, gens, st.exc)
    /\ UNCHANGED kinesis_vars
    /\ UNCHANGED cluster_vars

\* Whether the entry draws a name from uuid4().
NeedsGen(e) ==
    e.kind = "str" /\ path_match(e.str).matched /\ ~Truthy(path_match(e.str).source)

GenChoices(definition) ==
    {g \in [1..Len(definition) -> GenNames] :
        \A i \in 1..Len(definition) : ~NeedsGen(definition[i]) => g[i] = HexName1}

\* The arguments of the calls: the definition, whether volumes is given, and
\* the names uuid4() returns during the call.
Args(definition, passed, gens) ==
    [definition |-> definition, passed |-> passed, gens |-> gens]

MapCalls ==
    UNION {{Args(d, p, g) : p \in IF Len(d) <= 1 THEN BOOLEAN ELSE {TRUE},
                            g \in GenChoices(d)} : d \in Definitions}

\* The dicts handle_volume_dict_config is called with.
DictCalls ==
    VolumeDicts \cup
    {Entry("dict", <<>>, "tmpfs", "unset", Some(TgtData), None, None),
     Entry("dict", <<>>, "", "dict_size", None, None, None)}

StrCalls ==
    UNION {{Args(<<e>>, TRUE, g) : g \in GenChoices(<<e>>)} : e \in StrEntries}

MapVolumes(service, definition, passed, gens) ==
    Commit(map_volumes(Current, service, definition, passed, gens),
           "map_volumes", service, definition, passed, gens)

HandleVolumeStrConfig(service, e, gens) ==
    Commit(handle_volume_str_config(Current, service, e.str, gens[1]),
           "handle_volume_str_config", service, <<e>>, TRUE, gens)

HandleVolumeDictConfig(service, e) ==
    Commit(handle_volume_dict_config(Current, service, e),
           "handle_volume_dict_config", service, <<e>>, TRUE, <<HexName1>>)

\* The volume config of a direct call of match_volumes_services_config.
AsVolConfig(e) ==
    VolConfig(e.source, e.target,
              IF IsSet(e.read_only) THEN e.read_only[1] ELSE FALSE, 0, e.type)

MatchVolumesServicesConfig(service, e) ==
    Commit(match_volumes_services_config(Current, service, AsVolConfig(e)),
           "match_volumes_services_config", service, <<e>>, TRUE, <<HexName1>>)

\* The caller takes the outcome of the call (its return, or the exception it
\* raised) and goes on to its next call.
Resume ==
    /\ last # Idle
    /\ last' = Idle
    /\ UNCHANGED <<volumes, svolumes, tmpfses>>
    /\ UNCHANGED kinesis_vars
    /\ UNCHANGED cluster_vars

Next ==
    \/ Resume
    \/ \E s \in Services, a \in MapCalls :
        MapVolumes(s, a.definition, a.passed, a.gens)
    \/ \E s \in Services, a \in StrCalls :
        HandleVolumeStrConfig(s, a.definition[1], a.gens)
    \/ \E s \in Services, e \in DictCalls : HandleVolumeDictConfig(s, e)
    \/ \E s \in Services, e \in VolumeDicts : MatchVolumesServicesConfig(s, e)

Spec == Init /\ [][Next]_vars

\* ---------------------------------------------------------- kinesis actions

InitKinesis ==
    /\ volumes = <<>>
    /\ NoMounts
    /\ compose_content \in Declarations
    /\ mappings \in {Table({}), Table({RES_KEY}), Table({"x-sqs"}),
                     Table({RES_KEY, MAPPINGS_KEY})}
    /\ streams = StreamsOf(compose_content)
    /\ xstack = NoXStack
    /\ klast = NoCall
    /\ NoCluster

\* A call of get_stream_config for a stream name.
GetStreamConfig(name, outcome, key) ==
    LET got == get_stream_config(outcome, StreamDescription(name, key))
    IN  /\ klast' = [op |-> "get_stream_config", outcome |-> outcome, key |-> key,
                     name |-> name, value |-> got.value, raised |-> got.raised]
        /\ UNCHANGED <<compose_content, mappings, streams, xstack>>
        /\ UNCHANGED volume_vars
        /\ UNCHANGED cluster_vars

\* XStack.__init__: set_resources has made a Stream of every declaration.
XStackInit(outcomes, keys) ==
    LET b == XStack_buckets(compose_content)
        ks == IF Len(b.lookup) > 0
              THEN resolve_lookup(KState(mappings, streams, "none"),
                                  b.lookup, outcomes, keys)
              ELSE KState(mappings, streams, "none")
    IN  /\ xstack.phase = "init"
        /\ mappings' = ks.mappings
        /\ IF ks.exc # "none"
           THEN /\ streams' = ks.streams
                /\ xstack' = [phase |-> "failed", use |-> b.use, lookup |-> b.lookup,
                              new |-> <<>>, is_void |-> FALSE, exc |-> ks.exc]
           ELSE /\ streams' = [n \in DOMAIN ks.streams |->
                                [ks.streams[n] EXCEPT !.stack = TRUE]]
                /\ xstack' = [phase |-> "done", use |-> b.use, lookup |-> b.lookup,
                              new |-> b.new, is_void |-> Len(b.new) = 0,
                              exc |-> "none"]
        /\ UNCHANGED <<compose_content, klast>>
        /\ UNCHANGED volume_vars
        /\ UNCHANGED cluster_vars

NextKinesis ==
    \/ \E n \in DOMAIN streams, o \in DescribeOutcomes, k \in KeyIds :
        GetStreamConfig(n, o, k)
    \/ \E o \in [DOMAIN streams -> DescribeOutcomes], k \in [DOMAIN streams -> KeyIds] :
        XStackInit(o, k)

SpecKinesis == InitKinesis /\ [][NextKinesis]_vars

\* ---------------------------------------------------------- cluster actions

\* The parameters of a cluster template whose modules are all bound.
BoundParameters ==
    SelectSeq(ClusterParameters, LAMBDA a : a.module \in ModuleNames)

\* A caller holds an empty template or the parent cluster template.
InitCluster ==
    /\ volumes = <<>>
    /\ NoMounts
    /\ NoStreams
    /\ template \in {init_template, ParentTemplate(BoundParameters)}
    /\ warnings = <<>>
    /\ clast = NoClusterCall

CommitCluster(cs, op, region_azs, content, kwargs, url) ==
    /\ clast = NoClusterCall
    /\ template' = cs.template
    /\ warnings' = cs.warnings
    /\ clast' = ClusterCall(op, region_azs, content, kwargs, url, cs.exc)
    /\ UNCHANGED volume_vars
    /\ UNCHANGED kinesis_vars

\* A call of add_spotfleet_stack on the template the caller holds.
AddSpotfleetStack(region_azs, content, kwargs, url) ==
    CommitCluster(add_spotfleet_stack(CState(template, warnings, "none"),
                                      region_azs, content, "LaunchTemplate",
                                      kwargs, url),
                  "add_spotfleet_stack", region_azs, content, kwargs, url)

\* A call of generate_cluster_template; the caller holds what it returns.
GenerateClusterTemplate(region_azs, content, kwargs, url) ==
    CommitCluster(generate_cluster_template(CState(template, warnings, "none"),
                                            region_azs, content, kwargs, url),
                  "generate_cluster_template", region_azs, content, kwargs, url)

NextCluster ==
    \/ \E a \in RegionAzs, c \in ComposeContents, k \in KwargsChoices,
          u \in UploadOutcomes : AddSpotfleetStack(a, c, k, u)
    \/ \E a \in RegionAzs, c \in ComposeContents, k \in KwargsChoices,
          u \in UploadOutcomes : GenerateClusterTemplate(a, c, k, u)

SpecCluster == InitCluster /\ [][NextCluster]_vars

\* ------------------------------------------------------- the stated grammar

\* The ':'-separated segments of a string.
Split(str) ==
    LET F[k \in 0..Len(str)] ==
            IF k = 0 THEN << <<>> >>
            ELSE IF str[k] = ":" THEN Append(F[k - 1], <<>>)
            ELSE [F[k - 1] EXCEPT ![Len(F[k - 1])] = Append(@, str[k])]
    IN  F[Len(str)]

Ro == <<"r", "o">>
Rw == <<"r", "w">>
IsMode(m) == m \in {Ro, Rw}
IsAbsolute(path) == StartsWithSlash(path)

\* source:target:mode
IsSourceTargetMode(str) ==
    LET p == Split(str)
    IN  Len(p) = 3 /\ p[1] # <<>> /\ IsAbsolute(p[2]) /\ IsMode(p[3])

\* target, or target:mode
OmitsSource(str) ==
    LET p == Split(str)
    IN  \/ Len(p) = 1 /\ IsAbsolute(p[1])
        \/ Len(p) = 2 /\ IsAbsolute(p[1]) /\ IsMode(p[2])

\* (source:)?target(:ro|rw)? with an absolute target, as the whole string
Conforms(str) ==
    LET p == Split(str)
    IN  \/ OmitsSource(str)
        \/ Len(p) = 2 /\ p[1] # <<>> /\ IsAbsolute(p[2])
        \/ IsSourceTargetMode(str)

\* ------------------------------------------------------------------ claims

\* The string of the last call, when it was given one string.
LastStr == last.definition[1].str

\* The record the last call's service holds last.
LastRecord == svolumes[last.service][Len(svolumes[last.service])]

Named(name) == \E i \in 1..Len(volumes) : volumes[i].name = name

\* C1: for every compact string source:target:mode (source not empty and
\* without ':', a one-character source included, target absolute, mode ro or
\* rw) whose source is a host path or a declared volume,
\* handle_volume_str_config raises no ValueError and appends a record with
\* that source and target, read_only exactly when the mode is ro.
C1_SourceTargetModeParsed ==
    (/\ last.op = "handle_volume_str_config"
     /\ IsSourceTargetMode(LastStr)
     /\ (IsAbsolute(Split(LastStr)[1]) \/ Named(Split(LastStr)[1])))
    => (/\ last.exc = "none"
        /\ Len(svolumes[last.service]) > 0
        /\ LastRecord.source = Some(Split(LastStr)[1])
        /\ LastRecord.target = Some(Split(LastStr)[2])
        /\ LastRecord.read_only = (Split(LastStr)[3] = Ro))

\* C2: for every valid string that omits the source, handle_volume_str_config
\* appends exactly one new auto-generated volume with a six-character name,
\* and the record it appends to service.volumes references that new volume,
\* whose services then hold the service.
C2_NewVolumeAttached ==
    [][(last'.op = "handle_volume_str_config" /\ OmitsSource(last'.definition[1].str))
       => (/\ last'.exc = "none"
           /\ Len(volumes') = Len(volumes) + 1
           /\ volumes'[Len(volumes')].autogenerated
           /\ Len(volumes'[Len(volumes')].name) = 6
           /\ Len(svolumes'[last'.service]) = Len(svolumes[last'.service]) + 1
           /\ svolumes'[last'.service][Len(svolumes'[last'.service])].volume = Len(volumes')
           /\ volumes'[Len(volumes')].services = <<last'.service>>)]_vars

\* C3: map_volumes, given the top-level volumes, of a service whose volumes
\* list is the host bind string /h:/d:ro leaves, whatever top-level volumes
\* are declared (none included),
\* exactly one new record in service.volumes, with target /d, read-only and
\* volume None, and changes no volume's services.
HostBindRo == Join(Some(SrcHost), TgtData, <<":", "r", "o">>)

C3_HostBindMapped ==
    [][(/\ last'.op = "map_volumes"
        /\ last'.passed
        /\ last'.definition = <<StrEntry(HostBindRo)>>)
       => (/\ last'.exc = "none"
           /\ svolumes'[last'.service] =
                Append(svolumes[last'.service],
                       VolConfig(Some(SrcHost), Some(TgtData), TRUE, 0, ""))
           /\ volumes' = volumes)]_vars

\* The number of positions of a sequence that satisfy a test.
Count(seq, Test(_)) == Cardinality({k \in 1..Len(seq) : Test(seq[k])})

\* C4: a service is in volume.services as many times as service.volumes
\* holds a record whose volume is that volume (so it is in the list exactly
\* when there is such a record).
C4_Bidirectional ==
    \A s \in Services, i \in 1..Len(volumes) :
        LET IsService(x) == x = s
            RefersTo(r) == r.volume = i
        IN  Count(volumes[i].services, IsService) = Count(svolumes[s], RefersTo)

\* A volume holds the same service twice, the service holding two records
\* that refer to it.
C4_Witness ==
    /\ \E i \in 1..Len(volumes) : Len(volumes[i].services) = 2
    /\ \E s \in Services : Len(svolumes[s]) = 2 /\ svolumes[s][1].volume = svolumes[s][2].volume
                           /\ svolumes[s][1].volume > 0

\* Whether the entry is a dict-form tmpfs declaration with no non-empty target.
TmpfsWithoutTarget(e) ==
    e.kind = "dict" /\ (e.tmpfs # "unset" \/ e.type = "tmpfs") /\ ~Truthy(e.target)

\* C5: when map_volumes comes to a dict-form tmpfs entry with no non-empty
\* target (the entries before it having raised nothing), it raises KeyError
\* and appends nothing for that entry: the lists are as the entries before it
\* left them.
C5_TmpfsNeedsTarget ==
    [][\A k \in 1..Len(last'.definition) :
        LET before == map_volumes(Current, last'.service,
                                  SubSeq(last'.definition, 1, k - 1),
                                  last'.passed, last'.gens)
        IN  (/\ last'.op = "map_volumes"
             /\ TmpfsWithoutTarget(last'.definition[k])
             /\ before.exc = "none")
            => (/\ last'.exc = "KeyError"
                /\ tmpfses' = before.tmpfses
                /\ svolumes' = before.svolumes
                /\ volumes' = before.volumes
                /\ (k = 1 => UNCHANGED <<volumes, svolumes, tmpfses>>))]_vars

\* map_volumes raised KeyError at a tmpfs entry without target that came
\* after an entry it had mapped.
C5_Witness ==
    /\ last.op = "map_volumes"
    /\ Len(last.definition) = 2
    /\ TmpfsWithoutTarget(last.definition[2])
    /\ last.exc = "KeyError"
    /\ Len(tmpfses[last.service]) + Len(svolumes[last.service]) = 1

\* C8: every string that does not conform to (source:)?target(:ro|rw)? with
\* an absolute target makes handle_volume_str_config raise ValueError and
\* leaves service.volumes, the volume list and the volumes' services as they
\* were.
C8_NonConformingRejected ==
    [][(last'.op = "handle_volume_str_config" /\ ~Conforms(last'.definition[1].str))
       => (last'.exc = "ValueError" /\ UNCHANGED <<volumes, svolumes, tmpfses>>)]_vars

\* Whether the call hands the entry, as a volume config, to
\* match_volumes_services_config.
ReachesMatch(call) ==
    \/ call.op = "match_volumes_services_config"
    \/ /\ call.op = "handle_volume_dict_config"
       /\ call.definition[1].tmpfs = "unset" /\ call.definition[1].type # "tmpfs"
       /\ IsSet(call.definition[1].target)

\* C9: when the volume config has a source (empty or not) that does not
\* start with '/' and no volume of the list has that name,
\* match_volumes_services_config raises LookupError and changes neither
\* service.volumes nor any volume's services.
C9_UnknownSourceLookupError ==
    [][(/\ ReachesMatch(last')
        /\ IsSet(last'.definition[1].source)
        /\ ~StartsWithSlash(last'.definition[1].source[1])
        /\ ~Named(last'.definition[1].source[1]))
       => (last'.exc = "LookupError" /\ UNCHANGED <<volumes, svolumes, tmpfses>>)]_vars

\* match_volumes_services_config raised LookupError for an empty source and
\* for an unknown name, with volumes declared.
C9_Witness ==
    /\ last.op = "match_volumes_services_config"
    /\ last.definition[1].source \in {Some(<<>>), Some(SrcZZ)}
    /\ last.exc = "LookupError"
    /\ Len(volumes) > 0
    /\ \E s \in Services : Len(svolumes[s]) > 0

IsBindMount(r) ==
    Truthy(r.source) /\ StartsWithSlash(r.source[1]) /\ r.volume = 0

IsResolved(r) ==
    /\ r.volume \in 1..Len(volumes)
    /\ IsSet(r.source)
    /\ volumes[r.volume].name = r.source[1]

\* C10: every record of service.volumes is a bind mount (source starting
\* with '/', volume None) or a resolved attachment (volume a member of the
\* volume list whose name is the record's source), and never both or neither.
C10_BindOrResolved ==
    \A s \in Services : \A k \in 1..Len(svolumes[s]) :
        IsBindMount(svolumes[s][k]) # IsResolved(svolumes[s][k])

\* A service holds a bind mount and a resolved attachment, the last one
\* appended by handle_volume_dict_config.
C10_Witness ==
    /\ last.op = "handle_volume_dict_config"
    /\ last.exc = "none"
    /\ Len(svolumes[last.service]) = 2
    /\ IsBindMount(svolumes[last.service][1])
    /\ IsResolved(svolumes[last.service][2])

\* Whether a list of resources holds a resource.
Holds(bucket, r) == \E i \in 1..Len(bucket) : bucket[i] = r

C7_StreamConfig ==
    klast.op = "get_stream_config" =>
        /\ klast.outcome = "not_found" =>
            (klast.value = None /\ klast.raised = "none")
        /\ klast.outcome = "ok" =>
            /\ klast.raised = "none"
            /\ klast.value = Some([STREAM_ARN |-> <<"arn:aws:kinesis", klast.name>>,
                                   STREAM_ID |-> klast.name,
                                   STREAM_KMS_KEY_ID |-> klast.key])

\* get_stream_config was called for a stream that does not exist.
C7_Witness ==
    /\ klast.op = "get_stream_config"
    /\ klast.outcome = "not_found"
    /\ klast.value = None

\* The names of the resources of a list.
NamesOf(resources) == {resources[i].name : i \in 1..Len(resources)}

\* describe_stream answers for every resource of the list.
AllFound(resources, outcomes) == \A n \in NamesOf(resources) : outcomes[n] = "ok"

\* The table has no entry for the streams, under either key of kinesis_params.
NoKinesisEntry(table) == ~HasKey(table, RES_KEY) /\ ~HasKey(table, MAPPINGS_KEY)

\* Under the key, the table holds exactly one entry per resource, by name,
\* equal to the mappings the resource resolved to.
MergedUnder(table, key, resources, resolved) ==
    /\ HasKey(table, key)
    /\ DOMAIN table[key] = NamesOf(resources)
    /\ \A n \in NamesOf(resources) :
        IsSet(resolved[n].mappings) /\ table[key][n] = resolved[n].mappings

\* Every entry of the table before is in the table after.
NothingRemoved(before, after) ==
    \A key \in DOMAIN before :
        /\ HasKey(after, key)
        /\ \A n \in DOMAIN before[key] :
            n \in DOMAIN after[key] /\ after[key][n] = before[key][n]

\* C11: when settings.mappings has no entry for the streams and describe_stream
\* answers for every lookup resource, resolve_lookup (called by XStack.__init__
\* on a non-empty lookup bucket) raises nothing and leaves under one key of the
\* streams exactly one entry per lookup resource, by logical name, equal to the
\* resource's resolved mappings; no entry the table had is removed.
C11_LookupsMerged ==
    [][\A o \in [DOMAIN streams -> DescribeOutcomes],
          k \in [DOMAIN streams -> KeyIds] :
        (/\ XStackInit(o, k)
         /\ Len(xstack'.lookup) > 0
         /\ AllFound(xstack'.lookup, o)
         /\ NoKinesisEntry(mappings))
        => /\ xstack'.exc = "none"
           /\ \E key \in {RES_KEY, MAPPINGS_KEY} :
                MergedUnder(mappings', key, xstack'.lookup, streams')
           /\ NothingRemoved(mappings, mappings')]_vars

HasSpotFleet(t) == "SpotFleet" \in Titles(t)

\* upload_template was called: the arguments of the call could be built.
Uploaded(call) == "BucketName" \in DOMAIN call.kwargs

\* C12: add_spotfleet_stack adds the 'SpotFleet' nested stack to the parent
\* template if and only if upload_template returned a URL; when no URL is
\* returned it logs the warning, leaves the template as it was and raises
\* nothing, and generate_cluster_template then goes on to add its output to
\* the template it returns.
C12_SpotFleetIffUrl ==
    [][/\ (clast'.op = "add_spotfleet_stack" /\ Uploaded(clast'))
            => /\ HasSpotFleet(template') <=> Bool(clast'.url)
               /\ ~Bool(clast'.url)
                    => /\ template' = template
                       /\ clast'.exc = "none"
                       /\ WarnNoUrl \in Range(warnings')
       /\ (clast'.op = "generate_cluster_template" /\ Uploaded(clast'))
            => /\ HasSpotFleet(template') <=> Bool(clast'.url)
               /\ ~Bool(clast'.url)
                    => /\ clast'.exc = "none"
                       /\ WarnNoUrl \in Range(warnings')
                       /\ ClusterOutput \in template'.outputs]_vars

\* add_spotfleet_stack called on its own, with the bucket among its keyword
\* arguments: the stack is added exactly when a URL is returned, and without
\* a URL the warning is logged, the template kept and nothing raised.
AddSpotfleetStackAlone ==
    [][(clast'.op = "add_spotfleet_stack" /\ Uploaded(clast'))
        => /\ HasSpotFleet(template') <=> Bool(clast'.url)
           /\ clast'.exc = "none"
           /\ ~Bool(clast'.url)
                => (template' = template /\ WarnNoUrl \in Range(warnings'))]_vars

====
